---- MODULE Spec2Model ----
(***************************************************************************)
(* Clippy: the Slack bot of MrRobot AI Core.  handle_mention() receives a  *)
(* mention, runs invoke_claude_with_tools() (the tool loop), formats and   *)
(* redacts the response and posts it to the thread.                        *)
(*                                                                         *)
(* The Python of the bot is quoted in the architecture notes that follow   *)
(* the deployment script (src/scripts/deploy-to-ecs.sh, from line 147) and *)
(* in src/docs/AI_IMPROVEMENT_PLAN.md; the definitions below follow those  *)
(* listings.  formatters.py and the handler of run_aws_command are not     *)
(* quoted anywhere; they follow the design description (spec.md).          *)
(***************************************************************************)
EXTENDS Integers, Sequences, FiniteSets, TLC

(***************************************************************************)
(* Bounds of the model.                                                    *)
(***************************************************************************)
\* the largest configured max_tool_calls that is explored
MaxToolCalls == 1
\* the most content blocks in one planner response
MaxBlocks == 2

(***************************************************************************)
(* Program constants.                                                      *)
(***************************************************************************)
\* executor = ThreadPoolExecutor(max_workers=5)
max_workers == 5
\* a credential-shaped token has 20 or more alphanumeric characters
MinSecretLen == 20

(***************************************************************************)
(* Text.  A text is a sequence of tokens; a token has a kind and a length  *)
(* in characters.  Concatenating strings is concatenating the sequences.   *)
(***************************************************************************)
Word == [kind |-> "word", len |-> 5]
Keyword == [kind |-> "keyword", len |-> 8]
Alnum(n) == [kind |-> "alnum", len |-> n]
Bold == [kind |-> "**", len |-> 2]
SlackBold == [kind |-> "*", len |-> 1]
Mask == [kind |-> "[REDACTED]", len |-> 10]

\* "response": "I ran multiple searches but need more information..."
LimitText == <<[kind |-> "I ran multiple searches but need more information...", len |-> 52]>>
\* the generic message returned when redaction fails
GenericErrorText == <<[kind |-> "unable to produce response", len |-> 26]>>
\* the degraded response after planner failure
DegradedText == <<[kind |-> "could not complete investigation", len |-> 32]>>

(***************************************************************************)
(* Content blocks of a planner response.                                   *)
(***************************************************************************)
TextBlock(t) == [type |-> "text", text |-> t, id |-> 0, name |-> "", input |-> <<>>]
ToolUseBlock(i, c) == [type |-> "tool_use", text |-> <<>>, id |-> i, name |-> c[1], input |-> c[2]]

\* tool_use_blocks = [b for b in content if b.get("type") == "tool_use"]
IsToolUse(b) == b.type = "tool_use"
ToolUseBlocks(c) == SelectSeq(c, IsToolUse)

\* final_text = ""; for block in content: if type == "text": final_text += text
RECURSIVE ExtractText(_)
ExtractText(c) ==
  IF c = <<>> THEN <<>>
  ELSE (IF Head(c).type = "text" THEN Head(c).text ELSE <<>>) \o ExtractText(Tail(c))

(***************************************************************************)
(* Tool catalog and execute_tool().                                        *)
(***************************************************************************)
DestructiveTools == {"run_aws_command"}
\* Blocked: delete, terminate, create, get-secret-value (the list without "put")
DenylistWithoutPut == {"delete", "terminate", "create", "get-secret-value"}

\* Blocked commands: delete, terminate, create, put, get-secret-value
Denylist == {"delete", "terminate", "create", "put", "get-secret-value"}

Contains(input, words) == \E i \in 1..Len(input) : input[i] \in words

\* the denylist check on the argument payload of a destructive tool
Denied(name, input) == name \in DestructiveTools /\ Contains(input, Denylist)

\* the tool result of one call: what execute_tool returns for it
OkResult(name, input) == [status |-> "ok", payload |-> <<name, input>>]
DeniedResult(name, input) == [status |-> "denied", payload |-> <<name, input>>]

\* execute_tool(tool_name, tool_input) when the handler returns normally
execute_tool(name, input) ==
  IF Denied(name, input) THEN DeniedResult(name, input) ELSE OkResult(name, input)

\* whether execute_tool reaches the backend of the tool
InvokesHandler(name, input) == ~Denied(name, input)

(***************************************************************************)
(* formatters.py: format_for_slack() and redact_secrets().                 *)
(***************************************************************************)
\* an alphanumeric token of MinSecretLen or more characters that follows a credential keyword
CredentialAt(text, i) ==
  /\ i > 1
  /\ text[i - 1].kind = "keyword"
  /\ text[i].kind = "alnum"
  /\ text[i].len >= MinSecretLen

\* every credential-shaped token is replaced by the mask
redact_secrets(text) ==
  [i \in 1..Len(text) |-> IF CredentialAt(text, i) THEN Mask ELSE text[i]]

\* Bold: *text* (NOT **text**)
format_for_slack(text) ==
  [i \in 1..Len(text) |-> IF text[i] = Bold THEN SlackBold ELSE text[i]]

FormatOutcomes == {"ok", "format_error", "redact_error"}

\* step 6 of handle_mention: format response (markdown, redact secrets)
FormatResponse(response, outcome) ==
  CASE outcome = "redact_error" -> GenericErrorText
    [] outcome = "format_error" -> redact_secrets(response)
    [] OTHER -> redact_secrets(format_for_slack(response))

(***************************************************************************)
(* State.                                                                  *)
(***************************************************************************)
VARIABLES
  max_tool_calls,        \* parameter of invoke_claude_with_tools
  executor_mode,         \* "sequential" (the for loop) or "parallel" (execute_tools_parallel)
  text_pool,             \* the texts the planner may put in a text block
  call_pool,             \* the <<name, input>> pairs the planner may request
  pc,                    \* position in handle_mention / invoke_claude_with_tools
  turn,                  \* the loop variable of the tool loop
  messages,              \* body["messages"]
  tools_used,            \* names of the tools called so far
  stop_reason,           \* of the last planner response
  content,               \* of the last planner response
  tool_result_contents,  \* the tool_result blocks of the current turn
  queued,                \* positions in tool_use_blocks not yet handed to execute_tool
  running,               \* positions whose execute_tool call is executing
  finished,              \* <<position, value>> pairs returned by execute_tool (parallel executor)
  completed,             \* positions of the last turn in the order their calls returned
  result,                \* the dict returned by invoke_claude_with_tools
  exc,                   \* the exception that left invoke_claude_with_tools, or "none"
  formatted,             \* the output of step 6
  redaction_failed,      \* whether redact_secrets failed in step 6
  reply,                 \* the texts posted to the thread
  alerts,                \* the alerts posted to #clippy-ai-dev
  planner_calls,         \* number of client.invoke_model calls made
  dispatched,            \* number of execute_tool calls made
  invoked,               \* the <<name, input>> pairs that reached a backend
  tool_turns,            \* number of turns in which tool calls were dispatched
  next_id,               \* the next unused tool_use id
  cancelled,             \* whether the mention was withdrawn while it was being handled
  in_flight,             \* ids of the tool calls that were executing when it was withdrawn
  runs,                  \* the mentions handled concurrently: the locals of each call
  cache_mode,            \* "none" (execute_tool as listed) or "ttl" (execute_tool with the TTLCache)
  cache,                 \* the process-wide TTLCache of execute_tool
  thread,                \* the Slack messages of the thread before the mention
  built,                 \* the messages array built for the mention (Phase 2)
  message,               \* the text of the mention, as passed to invoke_claude_with_tools
  channel_info,          \* the channel_info parameter
  enhanced_message,      \* the local of Phase 1
  enhance_pc,            \* position in Phase 1
  total_requests,        \* ClippyMetrics: the "Requests" counter of the process
  rollup_lines,          \* number of "[Clippy Metrics]" lines logged
  metrics_lock,          \* the thread inside record_request, or 0
  recorder,              \* for each thread: where it is in record_request, and what it read
  requests_done,         \* number of requests whose record_request call has returned
  sinks,                 \* how the calls of this mention to the metrics and alert sinks ended
  prompts,               \* the system prompt: in S3, in the cache, in body, and as sent
  isOpen,                \* ChatBot.jsx: useState(false)
  chat_messages,         \* ChatBot.jsx: const [messages, setMessages] = useState([])
  chat_input,            \* ChatBot.jsx: const [input, setInput] = useState('')
  isConnected,           \* ChatBot.jsx: useState(false)
  isLoading,             \* ChatBot.jsx: useState(false)
  currentTool,           \* ChatBot.jsx: useState(null)
  streamingContent,      \* ChatBot.jsx: useState(''), as the sequence of the tokens received
  wsRef,                 \* ChatBot.jsx: wsRef.current, a WebSocket or 0 for null
  sockets,               \* the WebSocket objects created: readyState, and the closure of onmessage
  frames,                \* the 'message' frames that went out over a WebSocket
  pending,               \* the sockets on which the server is answering a frame
  awaiting_reply,        \* a frame went out and neither 'done' nor 'error' has arrived since
  last_event             \* "done" when the last step handled a 'done' event, else ""

vars == <<max_tool_calls, executor_mode, text_pool, call_pool, pc, turn, messages,
          tools_used, stop_reason, content, tool_result_contents, queued, running,
          finished, completed, result, exc, formatted, redaction_failed, reply, alerts,
          planner_calls, dispatched, invoked, tool_turns, next_id, cancelled, in_flight,
          runs, cache_mode, cache, thread, built,
          message, channel_info, enhanced_message, enhance_pc,
          total_requests, rollup_lines, metrics_lock, recorder, requests_done, sinks, prompts,
          isOpen, chat_messages, chat_input, isConnected, isLoading, currentTool,
          streamingContent, wsRef, sockets, frames, pending, awaiting_reply, last_event>>

\* the state of the process outside the call of invoke_claude_with_tools
cancel_vars == <<cancelled, in_flight>>
thread_vars == <<runs, cache_mode, cache>>
builder_vars == <<thread, built>>
enhancer_vars == <<message, channel_info, enhanced_message, enhance_pc>>
metrics_vars == <<total_requests, rollup_lines, metrics_lock, recorder, requests_done>>
sidecar_vars == <<sinks>>
prompt_vars == <<prompts>>
\* the state of the chat component of the dashboard, and of its connection
chat_vars == <<isOpen, chat_messages, chat_input, isConnected, isLoading, currentTool,
               streamingContent, wsRef, sockets, frames, pending, awaiting_reply,
               last_event>>
process_vars == <<cancel_vars, thread_vars, builder_vars, enhancer_vars, metrics_vars,
                  sidecar_vars, prompt_vars, chat_vars>>

config == <<max_tool_calls, executor_mode, text_pool, call_pool>>
response_vars == <<stop_reason, content>>
executor_vars == <<queued, running, finished, completed>>
outcome_vars == <<result, exc>>
channel_vars == <<formatted, redaction_failed, reply, alerts>>

\* the variables of the mention that is followed step by step
loop_vars == <<config, pc, turn, messages, tools_used, response_vars, tool_result_contents,
               executor_vars, outcome_vars, channel_vars, planner_calls, dispatched,
               invoked, tool_turns, next_id>>
\* what the threads of other mentions, and the building of the conversation, leave alone
outside_cancel == <<loop_vars, thread_vars, builder_vars, enhancer_vars, metrics_vars,
                     sidecar_vars, prompt_vars, chat_vars>>
outside_threads == <<loop_vars, cancel_vars, builder_vars, enhancer_vars, metrics_vars,
                     sidecar_vars, prompt_vars, chat_vars>>
outside_builder == <<loop_vars, cancel_vars, thread_vars, enhancer_vars, metrics_vars,
                     sidecar_vars, prompt_vars, chat_vars>>
outside_enhancer == <<loop_vars, cancel_vars, thread_vars, builder_vars, metrics_vars,
                     sidecar_vars, prompt_vars, chat_vars>>
outside_metrics == <<loop_vars, cancel_vars, thread_vars, builder_vars, enhancer_vars,
                     sidecar_vars, prompt_vars, chat_vars>>
outside_prompts == <<loop_vars, cancel_vars, thread_vars, builder_vars, enhancer_vars,
                     metrics_vars, sidecar_vars, chat_vars>>
outside_chat == <<loop_vars, cancel_vars, thread_vars, builder_vars, enhancer_vars,
                  metrics_vars, sidecar_vars, prompt_vars>>

(***************************************************************************)
(* Messages.                                                               *)
(***************************************************************************)
\* messages.append({"role": "user", "content": enhanced_message})
UserMessage(text) == [role |-> "user", type |-> "text", content |-> text]
\* messages.append({"role": "assistant", "content": content})
AssistantMessage(c) == [role |-> "assistant", type |-> "tool_use", content |-> c]
\* the tool results appended under a role of their own
ToolResultsMessageToolRole(r) == [role |-> "tool", type |-> "tool_result", content |-> r]
\* messages.append({"role": "user", "content": tool_result_contents})
ToolResultsMessage(r) == [role |-> "user", type |-> "tool_result", content |-> r]
\* {"type": "tool_result", "tool_use_id": tool_id, "content": json.dumps(tool_result)}
ToolResult(tool_id, tool_result) ==
  [type |-> "tool_result", tool_use_id |-> tool_id, content |-> tool_result]

NoResult == [none |-> TRUE]

\* DoneReturn with final_text = text in place of final_text += text
RECURSIVE LastText(_)
LastText(c) ==
  IF c = <<>> THEN <<>>
  ELSE IF c[Len(c)].type = "text" THEN c[Len(c)].text
  ELSE LastText(SubSeq(c, 1, Len(c) - 1))
DoneReturnLastText(c, used) ==
  [response |-> LastText(c),
   tool_used |-> IF used = <<>> THEN "None" ELSE used[Len(used)],
   all_tools_used |-> used]
\* return {"response": final_text, "tool_used": ..., "all_tools_used": tools_used}
DoneReturn(c, used) ==
  [response |-> ExtractText(c),
   tool_used |-> IF used = <<>> THEN "None" ELSE used[Len(used)],
   all_tools_used |-> used]
\* return {"response": "I ran multiple searches ...", "hit_tool_limit": True}
LimitReturn == [response |-> LimitText, hit_tool_limit |-> TRUE]

(***************************************************************************)
(* The planner (Claude via Bedrock) and what it may answer.                *)
(***************************************************************************)
ExecutorModes == {"sequential", "parallel"}
StopReasons == {"tool_use", "end_turn"}

BlockKinds == ({"text"} \X text_pool) \cup ({"tool_use"} \X call_pool)
Shapes == UNION {[1..n -> BlockKinds] : n \in 0..MaxBlocks}
ToolsUpTo(shape, i) == Cardinality({j \in 1..i : shape[j][1] = "tool_use"})

\* the content blocks of a response; tool_use ids are fresh ("toolu_01ABC123")
MakeContent(shape, base) ==
  [i \in 1..Len(shape) |->
     IF shape[i][1] = "text" THEN TextBlock(shape[i][2])
     ELSE ToolUseBlock(base + ToolsUpTo(shape, i) - 1, shape[i][2])]

\* the current message, after enhancement
CurrentMessage == <<Word>>

(***************************************************************************)
(* Initial states: handle_mention has reached step 5 and                   *)
(* invoke_claude_with_tools is about to enter the tool loop.               *)
(***************************************************************************)
\* the most mentions handled at the same time
NumRequests == 2
Requests == 1..NumRequests

\* the locals of invoke_claude_with_tools before handle_mention has called it
IdleRun ==
  [pc |-> "idle", turn |-> 0, messages |-> <<>>, tools_used |-> <<>>, content |-> <<>>,
   result |-> NoResult]

\* the messages array before Phase 2 has run
NotBuilt == <<[role |-> "none", type |-> "none", content |-> <<>>]>>

\* channel_info: dict = None
NoChannel == [name |-> <<>>, is_devops |-> FALSE]

CacheModes == {"none", "ttl"}
\* self.cache = {}
EmptyCache == <<>>

\* the parts of the process in the states they have when they take no step
CancelIdle ==
  /\ cancelled = FALSE
  /\ in_flight = {}
ThreadsIdle(modes) ==
  /\ runs = [r \in Requests |-> IdleRun]
  /\ cache_mode \in modes
  /\ cache = EmptyCache
BuilderIdle ==
  /\ thread = <<>>
  /\ built = NotBuilt
EnhancerIdle ==
  /\ message = <<>>
  /\ channel_info = NoChannel
  /\ enhanced_message = <<>>
  /\ enhance_pc = "idle"

MetricsIdle ==
  /\ total_requests = 0
  /\ rollup_lines = 0
  /\ metrics_lock = 0
  /\ recorder = [r \in Requests |-> [pc |-> "idle", seen |-> 0]]
  /\ requests_done = 0

\* neither sink has been called for this mention
NoSinkCalled == [metrics |-> "idle", alert |-> "idle"]
SidecarIdle == sinks = NoSinkCalled

\* body before Phase 3
NoBody == [system |-> 0, tools |-> ""]
\* system_prompt.txt as deployed, not yet loaded by the process
PromptsIdle ==
  prompts = [store |-> 1, cached |-> 0, live |-> FALSE, body |-> NoBody, sent |-> <<>>,
             pc |-> "idle"]

\* the most WebSocket objects of the component that exist at the same time
MaxSockets == 2
\* the most messages the user sends
MaxSends == 2
\* the most 'token' events the server sends for one frame
MaxTokens == 2

SocketIds == 1..MaxSockets
\* a WebSocket that does not exist: not created yet, or closed and dropped
NoSocket == [readyState |-> "none", closure |-> <<>>]

\* the chat component as mounted: the useState and useRef initial values
ChatIdle ==
  /\ isOpen = FALSE
  /\ chat_messages = <<>>
  /\ chat_input = ""
  /\ isConnected = FALSE
  /\ isLoading = FALSE
  /\ currentTool = ""
  /\ streamingContent = <<>>
  /\ wsRef = 0
  /\ sockets = [w \in SocketIds |-> NoSocket]
  /\ frames = <<>>
  /\ pending = {}
  /\ awaiting_reply = FALSE
  /\ last_event = ""

InitProcessWith(modes) ==
  /\ CancelIdle
  /\ ThreadsIdle(modes)
  /\ BuilderIdle
  /\ EnhancerIdle
  /\ MetricsIdle
  /\ SidecarIdle
  /\ PromptsIdle
  /\ ChatIdle

InitProcess == InitProcessWith({"none"})

InitLoopAt(texts, calls, budgets, start) ==
  /\ max_tool_calls \in budgets
  /\ executor_mode \in ExecutorModes
  /\ text_pool = texts
  /\ call_pool = calls
  /\ pc = start
  /\ turn = 0
  /\ messages = <<UserMessage(CurrentMessage)>>
  /\ tools_used = <<>>
  /\ stop_reason = ""
  /\ content = <<>>
  /\ tool_result_contents = <<>>
  /\ queued = <<>>
  /\ running = {}
  /\ finished = {}
  /\ completed = <<>>
  /\ result = NoResult
  /\ exc = "none"
  /\ formatted = <<>>
  /\ redaction_failed = FALSE
  /\ reply = <<>>
  /\ alerts = <<>>
  /\ planner_calls = 0
  /\ dispatched = 0
  /\ invoked = {}
  /\ tool_turns = 0
  /\ next_id = 1

InitLoop(texts, calls, budgets) == InitLoopAt(texts, calls, budgets, "call_claude")

InitWith(texts, calls, budgets) == InitLoop(texts, calls, budgets) /\ InitProcess

LoopTexts == {<<Word>>}
LoopCalls == {<<"search_logs", <<"errors">>>>, <<"run_aws_command", <<"s3", "delete">>>>}

Init == InitWith(LoopTexts, LoopCalls, 0..MaxToolCalls)

(***************************************************************************)
(* Phase 4: the tool loop.                                                 *)
(***************************************************************************)
\* Step 4a: response = client.invoke_model(...); stop_reason, content
CallClaude ==
  /\ pc = "call_claude"
  /\ \E shape \in Shapes, sr \in StopReasons :
       /\ sr = "tool_use" => ToolsUpTo(shape, Len(shape)) > 0
       /\ stop_reason' = sr
       /\ content' = MakeContent(shape, next_id)
       /\ next_id' = next_id + ToolsUpTo(shape, Len(shape))
  /\ planner_calls' = planner_calls + 1
  /\ completed' = <<>>
  /\ pc' = "check_done"
  /\ UNCHANGED <<config, process_vars, turn, messages, tools_used, tool_result_contents, queued, running,
                 finished, outcome_vars, channel_vars, dispatched, invoked, tool_turns>>

\* Step 4a when invoke_model raises (network error, timeout): nothing catches it
CallClaudeFails ==
  /\ pc = "call_claude"
  /\ planner_calls' = planner_calls + 1
  /\ exc' = "planner"
  /\ completed' = <<>>
  /\ pc' = "raised"
  /\ UNCHANGED <<config, process_vars, turn, messages, tools_used, response_vars, tool_result_contents,
                 queued, running, finished, result, channel_vars, dispatched, invoked,
                 tool_turns, next_id>>

\* Step 4b: if stop_reason != "tool_use": return
CheckDone ==
  /\ pc = "check_done"
  /\ stop_reason # "tool_use"
  /\ result' = DoneReturn(content, tools_used)
  /\ pc' = "format"
  /\ UNCHANGED <<config, process_vars, turn, messages, tools_used, response_vars, tool_result_contents,
                 executor_vars, exc, channel_vars, planner_calls, dispatched, invoked,
                 tool_turns, next_id>>

\* StartTools without a fresh tool_result_contents for the turn
StartToolsKeepsResults ==
  /\ pc = "check_done"
  /\ stop_reason = "tool_use"
  /\ queued' = [i \in 1..Len(ToolUseBlocks(content)) |-> i]
  /\ running' = {}
  /\ finished' = {}
  /\ completed' = <<>>
  /\ tool_turns' = tool_turns + (IF ToolUseBlocks(content) # <<>> THEN 1 ELSE 0)
  /\ pc' = "execute_tools"
  /\ UNCHANGED <<config, process_vars, turn, messages, tools_used, response_vars, tool_result_contents,
                 outcome_vars, channel_vars, planner_calls, dispatched, invoked, next_id>>

\* Step 4c, before the first call: the tool_use blocks of the response are taken
StartTools ==
  /\ pc = "check_done"
  /\ stop_reason = "tool_use"
  /\ tool_result_contents' = <<>>
  /\ queued' = [i \in 1..Len(ToolUseBlocks(content)) |-> i]
  /\ running' = {}
  /\ finished' = {}
  /\ completed' = <<>>
  /\ tool_turns' = tool_turns + (IF ToolUseBlocks(content) # <<>> THEN 1 ELSE 0)
  /\ pc' = "execute_tools"
  /\ UNCHANGED <<config, process_vars, turn, messages, tools_used, response_vars, outcome_vars,
                 channel_vars, planner_calls, dispatched, invoked, next_id>>

Reached(tool_use) ==
  IF InvokesHandler(tool_use.name, tool_use.input)
  THEN {<<tool_use.name, tool_use.input>>} ELSE {}

\* Step 4c: for tool_use in tool_use_blocks: execute_tool, tool_result_contents.append
ExecuteTool ==
  /\ pc = "execute_tools"
  /\ executor_mode = "sequential"
  /\ queued # <<>>
  /\ LET tool_use == ToolUseBlocks(content)[Head(queued)] IN
       /\ tools_used' = Append(tools_used, tool_use.name)
       /\ invoked' = invoked \cup Reached(tool_use)
       /\ tool_result_contents' =
            Append(tool_result_contents,
                   ToolResult(tool_use.id, execute_tool(tool_use.name, tool_use.input)))
  /\ dispatched' = dispatched + 1
  /\ queued' = Tail(queued)
  /\ completed' = Append(completed, Head(queued))
  /\ pc' = IF Tail(queued) = <<>> THEN "feed_results" ELSE "execute_tools"
  /\ UNCHANGED <<config, process_vars, turn, messages, response_vars, running, finished, outcome_vars,
                 channel_vars, planner_calls, tool_turns, next_id>>

\* Step 4c when the handler raises: execute_tool has no try/except, nor has the loop
ExecuteToolRaises ==
  /\ pc = "execute_tools"
  /\ executor_mode = "sequential"
  /\ queued # <<>>
  /\ LET tool_use == ToolUseBlocks(content)[Head(queued)] IN
       /\ InvokesHandler(tool_use.name, tool_use.input)
       /\ tools_used' = Append(tools_used, tool_use.name)
       /\ invoked' = invoked \cup Reached(tool_use)
  /\ dispatched' = dispatched + 1
  /\ exc' = "tool"
  /\ pc' = "raised"
  /\ UNCHANGED <<config, process_vars, turn, messages, response_vars, tool_result_contents,
                 executor_vars, result, channel_vars, planner_calls, tool_turns, next_id>>

(***************************************************************************)
(* execute_tools_parallel: the calls of one turn run on the thread pool    *)
(* and asyncio.gather returns their values in the order of the calls.      *)
(***************************************************************************)
\* a thread pool that starts every call it is given at once
StartWorkerUnbounded ==
  /\ pc = "execute_tools"
  /\ executor_mode = "parallel"
  /\ queued # <<>>
  /\ LET tool_use == ToolUseBlocks(content)[Head(queued)] IN
       /\ tools_used' = Append(tools_used, tool_use.name)
       /\ invoked' = invoked \cup Reached(tool_use)
  /\ running' = running \cup {Head(queued)}
  /\ queued' = Tail(queued)
  /\ dispatched' = dispatched + 1
  /\ UNCHANGED <<config, process_vars, pc, turn, messages, response_vars, tool_result_contents, finished,
                 completed, outcome_vars, channel_vars, planner_calls, tool_turns, next_id>>

\* loop.run_in_executor(executor, execute_tool, call["name"], call["input"])
StartWorker ==
  /\ pc = "execute_tools"
  /\ executor_mode = "parallel"
  /\ queued # <<>>
  /\ Cardinality(running) < max_workers
  /\ LET tool_use == ToolUseBlocks(content)[Head(queued)] IN
       /\ tools_used' = Append(tools_used, tool_use.name)
       /\ invoked' = invoked \cup Reached(tool_use)
  /\ running' = running \cup {Head(queued)}
  /\ queued' = Tail(queued)
  /\ dispatched' = dispatched + 1
  /\ UNCHANGED <<config, process_vars, pc, turn, messages, response_vars, tool_result_contents, finished,
                 completed, outcome_vars, channel_vars, planner_calls, tool_turns, next_id>>

\* a worker's execute_tool call returns
FinishWorker ==
  /\ pc = "execute_tools"
  /\ \E i \in running :
       LET tool_use == ToolUseBlocks(content)[i] IN
         /\ finished' = finished \cup {<<i, execute_tool(tool_use.name, tool_use.input)>>}
         /\ running' = running \ {i}
         /\ completed' = Append(completed, i)
  /\ UNCHANGED <<config, process_vars, pc, turn, messages, tools_used, response_vars,
                 tool_result_contents, queued, outcome_vars, channel_vars, planner_calls,
                 dispatched, invoked, tool_turns, next_id>>

\* a worker's handler raises: gather re-raises it in the loop
WorkerRaises ==
  /\ pc = "execute_tools"
  /\ \E i \in running :
       LET tool_use == ToolUseBlocks(content)[i] IN
         /\ InvokesHandler(tool_use.name, tool_use.input)
         /\ running' = running \ {i}
  /\ exc' = "tool"
  /\ pc' = "raised"
  /\ UNCHANGED <<config, process_vars, turn, messages, tools_used, response_vars, tool_result_contents,
                 queued, finished, completed, result, channel_vars, planner_calls, dispatched, invoked,
                 tool_turns, next_id>>

ValueAt(done, i) == (CHOOSE p \in done : p[1] = i)[2]

\* the values taken in the order in which the calls returned (as_completed)
GatheredAsCompleted(blocks, done) ==
  [i \in 1..Len(blocks) |-> ToolResult(blocks[i].id, ValueAt(done, completed[i]))]

\* the tool_result blocks built from the gathered values
Gathered(blocks, done) ==
  [i \in 1..Len(blocks) |-> ToolResult(blocks[i].id, ValueAt(done, i))]

\* the results of the calls that have returned so far
GatheredSoFar(blocks, done) ==
  LET pos == SelectSeq([i \in 1..Len(blocks) |-> i], LAMBDA i : \E p \in done : p[1] = i)
  IN [j \in 1..Len(pos) |-> ToolResult(blocks[pos[j]].id, ValueAt(done, pos[j]))]

\* Gather, returning as soon as one call has returned (FIRST_COMPLETED)
GatherFirstCompleted ==
  /\ pc = "execute_tools"
  /\ executor_mode = "parallel"
  /\ finished # {}
  /\ tool_result_contents' = GatheredSoFar(ToolUseBlocks(content), finished)
  /\ pc' = "feed_results"
  /\ UNCHANGED <<config, process_vars, turn, messages, tools_used, response_vars, executor_vars,
                 outcome_vars, channel_vars, planner_calls, dispatched, invoked, tool_turns,
                 next_id>>

\* return await asyncio.gather(*tasks); then the results are packaged
Gather ==
  /\ pc = "execute_tools"
  /\ executor_mode = "parallel"
  /\ queued = <<>>
  /\ running = {}
  /\ tool_result_contents' = Gathered(ToolUseBlocks(content), finished)
  /\ pc' = "feed_results"
  /\ UNCHANGED <<config, process_vars, turn, messages, tools_used, response_vars, executor_vars,
                 outcome_vars, channel_vars, planner_calls, dispatched, invoked, tool_turns,
                 next_id>>

\* Step 4d appending one user message for each tool result
FeedResultsSeparately ==
  /\ pc = "feed_results"
  /\ messages' = messages \o <<AssistantMessage(content)>> \o
                  [j \in 1..Len(tool_result_contents) |->
                     ToolResultsMessage(<<tool_result_contents[j]>>)]
  /\ pc' = "safety_limit"
  /\ UNCHANGED <<config, process_vars, turn, tools_used, response_vars, tool_result_contents,
                 executor_vars, outcome_vars, channel_vars, planner_calls, dispatched,
                 invoked, tool_turns, next_id>>

\* Step 4d: the tool request and the tool results are appended to the conversation
FeedResults ==
  /\ pc = "feed_results"
  /\ messages' = messages \o <<AssistantMessage(content),
                               ToolResultsMessage(tool_result_contents)>>
  /\ pc' = "safety_limit"
  /\ UNCHANGED <<config, process_vars, turn, tools_used, response_vars, tool_result_contents,
                 executor_vars, outcome_vars, channel_vars, planner_calls, dispatched,
                 invoked, tool_turns, next_id>>

\* a loop that counts the planner call and the tool turn separately
NextTurnCountsTwice ==
  /\ pc = "safety_limit"
  /\ turn < max_tool_calls
  /\ turn' = turn + 2
  /\ pc' = "call_claude"
  /\ UNCHANGED <<config, process_vars, messages, tools_used, response_vars, tool_result_contents,
                 executor_vars, outcome_vars, channel_vars, planner_calls, dispatched,
                 invoked, tool_turns, next_id>>

\* for turn in range(max_tool_calls + 1): the next iteration
NextTurn ==
  /\ pc = "safety_limit"
  /\ turn < max_tool_calls
  /\ turn' = turn + 1
  /\ pc' = "call_claude"
  /\ UNCHANGED <<config, process_vars, messages, tools_used, response_vars, tool_result_contents,
                 executor_vars, outcome_vars, channel_vars, planner_calls, dispatched,
                 invoked, tool_turns, next_id>>

\* Phase 5: if turn >= max_tool_calls: return {"response": ..., "hit_tool_limit": True}
SafetyLimit ==
  /\ pc = "safety_limit"
  /\ turn >= max_tool_calls
  /\ result' = LimitReturn
  /\ completed' = <<>>
  /\ pc' = "format"
  /\ UNCHANGED <<config, process_vars, turn, messages, tools_used, response_vars, tool_result_contents,
                 queued, running, finished, exc, channel_vars, planner_calls, dispatched, invoked,
                 tool_turns, next_id>>

(***************************************************************************)
(* handle_mention, steps 6 and 7, and the error path.                      *)
(***************************************************************************)
\* step 6 going on with the unredacted text when redact_secrets fails
FormatSkipsRedaction ==
  /\ pc = "format"
  /\ \E outcome \in FormatOutcomes :
       /\ formatted' = IF outcome = "redact_error" THEN format_for_slack(result.response)
                       ELSE FormatResponse(result.response, outcome)
       /\ redaction_failed' = (outcome = "redact_error")
  /\ pc' = "post"
  /\ UNCHANGED <<config, process_vars, turn, messages, tools_used, response_vars, tool_result_contents,
                 executor_vars, outcome_vars, reply, alerts, planner_calls, dispatched,
                 invoked, tool_turns, next_id>>

\* 6. Format response (markdown, redact secrets)
Format ==
  /\ pc = "format"
  /\ \E outcome \in FormatOutcomes :
       /\ formatted' = FormatResponse(result.response, outcome)
       /\ redaction_failed' = (outcome = "redact_error")
  /\ pc' = "post"
  /\ UNCHANGED <<config, process_vars, turn, messages, tools_used, response_vars, tool_result_contents,
                 executor_vars, outcome_vars, reply, alerts, planner_calls, dispatched,
                 invoked, tool_turns, next_id>>

\* step 7 posting the response of the loop as it was returned
OutboundRaw(text, raw) == raw

\* the text handed to the thread in step 7
Outbound(text, raw) == text

\* 7. Post reply to thread
PostReply ==
  /\ pc = "post"
  /\ reply' = Append(reply, Outbound(formatted, result.response))
  /\ pc' = IF redaction_failed THEN "report" ELSE "finished"
  /\ UNCHANGED <<config, process_vars, turn, messages, tools_used, response_vars, tool_result_contents,
                 executor_vars, outcome_vars, formatted, redaction_failed, alerts,
                 planner_calls, dispatched, invoked, tool_turns, next_id>>

\* the error handler that swallows the error without posting the alert
AlertErrorSilent ==
  /\ pc = "raised"
  /\ pc' = "finished"
  /\ UNCHANGED <<config, process_vars, turn, messages, tools_used, response_vars,
                 tool_result_contents, executor_vars, outcome_vars, channel_vars,
                 planner_calls, dispatched, invoked, tool_turns, next_id>>

\* errors are caught and reported to #clippy-ai-dev: alert_error(error_type, message)
AlertError ==
  /\ pc = "raised"
  /\ alerts' = Append(alerts, exc)
  /\ pc' = "finished"
  /\ UNCHANGED <<config, process_vars, turn, messages, tools_used, response_vars, tool_result_contents,
                 executor_vars, outcome_vars, formatted, redaction_failed, reply,
                 planner_calls, dispatched, invoked, tool_turns, next_id>>

\* a failure of redact_secrets is reported as well, after the generic reply
AlertRedactionFailure ==
  /\ pc = "report"
  /\ alerts' = Append(alerts, "redaction")
  /\ pc' = "finished"
  /\ UNCHANGED <<config, process_vars, turn, messages, tools_used, response_vars, tool_result_contents,
                 executor_vars, outcome_vars, formatted, redaction_failed, reply,
                 planner_calls, dispatched, invoked, tool_turns, next_id>>

Next ==
  \/ CallClaude
  \/ CallClaudeFails
  \/ CheckDone
  \/ StartTools
  \/ ExecuteTool
  \/ ExecuteToolRaises
  \/ StartWorker
  \/ FinishWorker
  \/ WorkerRaises
  \/ Gather
  \/ FeedResults
  \/ NextTurn
  \/ SafetyLimit
  \/ Format
  \/ PostReply
  \/ AlertError
  \/ AlertRedactionFailure

Spec == Init /\ [][Next]_vars

(***************************************************************************)
(* Specifications with other planner repertoires: texts that hold          *)
(* credentials and markup, and every command of the AWS tool.              *)
(***************************************************************************)
ReplyTexts ==
  {<<Word>>, <<Keyword>>, <<Alnum(MinSecretLen)>>, <<Alnum(MinSecretLen - 1)>>, <<Bold>>}
ReplyCalls == {<<"search_logs", <<"errors">>>>}
InitReply == InitWith(ReplyTexts, ReplyCalls, {1})
SpecReply == InitReply /\ [][Next]_vars

AwsVerbs == {"describe", "delete", "terminate", "create", "put", "get-secret-value"}
DispatchCalls == {<<"run_aws_command", <<"s3", v>>>> : v \in AwsVerbs}
InitDispatch ==
  \E v \in AwsVerbs \ {"describe"} :
    InitWith({}, {c \in DispatchCalls : c[2][2] \in {"describe", v}}, {1})
SpecDispatch == InitDispatch /\ [][Next]_vars

(***************************************************************************)
(* Properties of the tool loop.                                            *)
(***************************************************************************)
ReturnedPcs == {"format", "post", "report", "finished"}
ToolUseIds(c) == {ToolUseBlocks(c)[j].id : j \in 1..Len(ToolUseBlocks(c))}
ResultIds(r) == {r[j].tool_use_id : j \in 1..Len(r)}

\* C1: one execution of the loop dispatches tool calls in at most max_tool_calls
\* turns; a turn number max_tool_calls + 1 that executes tools never occurs.
C1_AtMostNToolTurns == tool_turns <= max_tool_calls

\* C2: when the loop is about to call the planner after a turn that requested k
\* tool calls, the message list ends with the tool results of all k calls of that
\* turn, and no call of the turn is queued or still executing, whatever the order
\* in which the calls returned.
C2_AllResultsBeforePlanning ==
  (pc = "call_claude" /\ turn > 0) =>
    LET n == Len(messages) IN
      /\ queued = <<>>
      /\ running = {}
      /\ n >= 2
      /\ messages[n].type = "tool_result"
      /\ messages[n - 1].type = "tool_use"
      /\ messages[n - 1].content = content
      /\ Len(messages[n].content) = Len(ToolUseBlocks(content))
      /\ ResultIds(messages[n].content) = ToolUseIds(content)

\* C2 witness: the planner is about to be called after a turn whose two calls ran
\* on the thread pool and returned in the opposite order.
C2_Witness ==
  /\ pc = "call_claude"
  /\ turn > 0
  /\ executor_mode = "parallel"
  /\ completed = <<2, 1>>

C4_HandlerFailureContained == exc # "tool"

\* C5: whenever the loop has ended, on any path, it has returned a result that
\* carries the final text, the tools used and the limit flag; no exception has
\* left invoke_claude_with_tools.
C5_AlwaysStructuredResult ==
  pc \in ReturnedPcs \cup {"raised"} =>
    /\ exc = "none"
    /\ {"response", "all_tools_used", "hit_tool_limit"} \subseteq DOMAIN result

\* C6: a failed planner call is retried a bounded number of times and, when every
\* attempt has failed, the loop returns the degraded "could not complete
\* investigation" response instead of raising.
C6_PlannerFailureDegrades ==
  exc = "planner" =>
    /\ pc \in ReturnedPcs
    /\ "response" \in DOMAIN result
    /\ result.response = DegradedText

(***************************************************************************)
(* Properties of the dispatcher's denylist.                                *)
(***************************************************************************)
IsDenylistedCall(name, input) ==
  /\ name = "run_aws_command"
  /\ \E i \in 1..Len(input) :
       input[i] \in {"delete", "terminate", "create", "put", "get-secret-value"}

CallWithId(c, id) == CHOOSE b \in {c[k] : k \in 1..Len(c)} : b.type = "tool_use" /\ b.id = id

DenialsIn(c, res) ==
  \A j \in 1..Len(res) :
    LET call == CallWithId(c, res[j].tool_use_id) IN
      IsDenylistedCall(call.name, call.input) => res[j].content.status = "denied"

CredentialShaped(text) ==
  \E i \in 2..Len(text) :
    text[i - 1].kind = "keyword" /\ text[i].kind = "alnum" /\ text[i].len >= 20

C9_RedactionFailureGeneric ==
  (redaction_failed /\ reply # <<>>) =>
    /\ Len(reply[Len(reply)]) = 1
    /\ reply[Len(reply)][1].kind = "unable to produce response"

\* C9 witness: redaction failed on a response that holds a credential, and a reply
\* has been posted.
C9_Witness ==
  /\ redaction_failed
  /\ reply # <<>>
  /\ CredentialShaped(result.response)

RECURSIVE TextsUpTo(_, _)
TextsUpTo(c, n) ==
  IF n = 0 THEN <<>>
  ELSE TextsUpTo(c, n - 1) \o (IF c[n].type = "text" THEN c[n].text ELSE <<>>)

FirstResponseCompletes ==
  /\ turn = 0
  /\ stop_reason = "end_turn"
  /\ pc \in ReturnedPcs

\* C10: when the first planner response signals completion, the loop returns after
\* exactly one planner call, with no tool used, no execute_tool call made, and the
\* texts of the text blocks of that response, joined in order, as the response.
C10_FirstResponseCompletes ==
  FirstResponseCompletes =>
    /\ planner_calls = 1
    /\ result.all_tools_used = <<>>
    /\ result.response = TextsUpTo(content, Len(content))
    /\ dispatched = 0
    /\ invoked = {}
    /\ tool_turns = 0

\* C10 witness: the first response completed with two text blocks of different text.
C10_Witness ==
  /\ FirstResponseCompletes
  /\ Len(content) = 2
  /\ content[1].type = "text"
  /\ content[2].type = "text"
  /\ content[1].text # content[2].text

(***************************************************************************)
(* Properties of the returned result.                                      *)
(***************************************************************************)
\* the run ended in Phase 5: the last response asked for tools and the turn
\* counter had reached max_tool_calls when they had been executed
LimitExceeded == stop_reason = "tool_use" /\ turn >= max_tool_calls

\* C11: the result returned by the loop carries a limit flag, which is true exactly
\* when the run ended because the turn counter reached max_tool_calls while tools
\* were being executed; a result returned on completion carries the flag as false.
C11_HitLimitIffLimitExceeded ==
  pc \in ReturnedPcs =>
    /\ "hit_tool_limit" \in DOMAIN result
    /\ result.hit_tool_limit <=> LimitExceeded

(***************************************************************************)
(* The mention is withdrawn (the user deletes it, or the host drops the    *)
(* event) while handle_mention is working on it.  Nothing in the loop      *)
(* reads the withdrawal.                                                   *)
(***************************************************************************)
RunningIds == {ToolUseBlocks(content)[i].id : i \in running}

Cancel ==
  /\ ~cancelled
  /\ pc \notin {"finished", "raised"}
  /\ cancelled' = TRUE
  /\ in_flight' = IF pc = "execute_tools" THEN RunningIds ELSE {}
  /\ UNCHANGED outside_cancel

NextCancel == Next \/ Cancel

CancelCalls == {<<"search_logs", <<"errors">>>>}
InitCancel == InitWith(LoopTexts, CancelCalls, {MaxToolCalls})
SpecCancel == InitCancel /\ [][NextCancel]_vars

\* C12: once the request is cancelled, the loop makes no further planner call, and
\* no tool_result message is appended that holds the result of a call that was
\* executing at the moment of cancellation.
C12_CancelStopsPlanning ==
  [][cancelled =>
       /\ planner_calls' = planner_calls
       /\ \A i \in (Len(messages) + 1)..Len(messages') :
            messages'[i].type = "tool_result" =>
              ResultIds(messages'[i].content) \cap in_flight = {}]_vars

(***************************************************************************)
(* Several mentions handled at the same time.  Slack delivers each         *)
(* app_mention event to handle_mention on a thread of its own; messages,   *)
(* tools_used and turn are locals of that thread's call of                 *)
(* invoke_claude_with_tools.  The TTLCache of execute_tool is one object   *)
(* of the process.  A thread is followed from one blocking call (the       *)
(* planner, a tool handler) to the next.                                   *)
(***************************************************************************)
\* the text of the r-th mention
RequestText(r) == <<[kind |-> "mention", len |-> r]>>

\* tool_use ids are unique across responses: here the request and its turn
ThreadToolId(r) == <<r, runs[r].turn>>

\* cache_key = f"{tool_name}:{hash(json.dumps(tool_input, sort_keys=True))}"
CacheKey(name, input) == <<name, input>>

\* TTLCache.get: the value of a key whose entry has not expired, else None
CacheGet(c, key) ==
  IF key \in DOMAIN c /\ c[key].live THEN c[key].value ELSE NoResult

\* TTLCache.get deletes an expired entry
CacheAfterGet(c, key) ==
  IF key \in DOMAIN c /\ ~c[key].live THEN [k \in DOMAIN c \ {key} |-> c[k]] ELSE c

\* TTLCache.set
CacheSet(c, key, value) ==
  [k \in DOMAIN c \cup {key} |-> IF k = key THEN [value |-> value, live |-> TRUE] ELSE c[k]]

\* tools_used as one list of the module, shared by every call
UsedAppendShared(rs, r, name) ==
  [q \in DOMAIN rs |-> [rs[q] EXCEPT !.tools_used = Append(@, name)]]

\* tools_used.append(tool_name) on the list of this call
UsedAppend(rs, r, name) == [rs EXCEPT ![r].tools_used = Append(@, name)]

\* Step 4d and the end of the iteration, on the locals of one call
FeedAndLoop(run, value, limit) ==
  LET tool_use == ToolUseBlocks(run.content)[1]
      fed == run.messages \o <<AssistantMessage(run.content),
                               ToolResultsMessage(<<ToolResult(tool_use.id, value)>>)>>
  IN IF run.turn >= limit
     THEN [run EXCEPT !.messages = fed, !.result = LimitReturn, !.pc = "returned"]
     ELSE [run EXCEPT !.messages = fed, !.turn = @ + 1, !.pc = "call_claude"]

\* handle_mention reaches step 5 for the r-th mention: messages = [] ... append
ThreadStart(r) ==
  /\ runs[r].pc = "idle"
  /\ runs' = [runs EXCEPT ![r].pc = "call_claude",
                          ![r].messages = <<UserMessage(RequestText(r))>>]
  /\ UNCHANGED <<outside_threads, cache_mode, cache>>

\* Steps 4a and 4b of one thread: the planner answers with one tool call or completes
ThreadCallClaude(r) ==
  /\ runs[r].pc = "call_claude"
  /\ \/ \E c \in call_pool :
          runs' = [runs EXCEPT ![r].content = <<ToolUseBlock(ThreadToolId(r), c)>>,
                               ![r].pc = "execute_tools"]
     \/ \E t \in text_pool :
          runs' = [runs EXCEPT ![r].content = <<TextBlock(t)>>,
                               ![r].result = DoneReturn(<<TextBlock(t)>>, runs[r].tools_used),
                               ![r].pc = "returned"]
  /\ UNCHANGED <<outside_threads, cache_mode, cache>>

\* Step 4c of one thread up to the handler: execute_tool looks the call up in the cache
ThreadExecuteTool(r) ==
  /\ runs[r].pc = "execute_tools"
  /\ LET tool_use == ToolUseBlocks(runs[r].content)[1]
         key == CacheKey(tool_use.name, tool_use.input)
         cached == IF cache_mode = "ttl" THEN CacheGet(cache, key) ELSE NoResult
         used == UsedAppend(runs, r, tool_use.name)
     IN /\ cache' = IF cache_mode = "ttl" THEN CacheAfterGet(cache, key) ELSE cache
        /\ runs' = IF cached # NoResult
                   THEN [used EXCEPT ![r] = FeedAndLoop(used[r], cached, max_tool_calls)]
                   ELSE [used EXCEPT ![r].pc = "handler"]
  /\ UNCHANGED <<outside_threads, cache_mode>>

\* the handler returns to execute_tool, which stores the result; Step 4d follows
ThreadHandlerReturns(r) ==
  /\ runs[r].pc = "handler"
  /\ LET tool_use == ToolUseBlocks(runs[r].content)[1]
         key == CacheKey(tool_use.name, tool_use.input)
         value == execute_tool(tool_use.name, tool_use.input)
     IN /\ cache' = IF cache_mode = "ttl" THEN CacheSet(cache, key, value) ELSE cache
        /\ runs' = [runs EXCEPT ![r] = FeedAndLoop(runs[r], value, max_tool_calls)]
  /\ UNCHANGED <<outside_threads, cache_mode>>

\* time.time() passes the expiry of an entry
CacheExpires ==
  /\ \E key \in DOMAIN cache :
       /\ cache[key].live
       /\ cache' = [cache EXCEPT ![key].live = FALSE]
  /\ UNCHANGED <<outside_threads, runs, cache_mode>>

NextThreads ==
  \/ \E r \in Requests : ThreadStart(r)
  \/ \E r \in Requests : ThreadCallClaude(r)
  \/ \E r \in Requests : ThreadExecuteTool(r)
  \/ \E r \in Requests : ThreadHandlerReturns(r)
  \/ CacheExpires

ThreadCalls == {<<"search_logs", <<"errors">>>>, <<"get_pipeline_status", <<"repo">>>>}
InitThreads ==
  /\ InitLoop(LoopTexts, ThreadCalls, {MaxToolCalls})
  /\ executor_mode = "sequential"
  /\ InitProcessWith(CacheModes)
SpecThreads == InitThreads /\ [][NextThreads]_vars

(***************************************************************************)
(* Properties of concurrent executions.                                    *)
(***************************************************************************)
BlockIds(c) == {c[j].id : j \in {k \in 1..Len(c) : c[k].type = "tool_use"}}

\* the names of the tool calls requested in the first n messages, in order
RECURSIVE RequestedNames(_, _)
RequestedNames(msgs, n) ==
  IF n = 0 THEN <<>>
  ELSE RequestedNames(msgs, n - 1) \o
       (IF msgs[n].type = "tool_use"
        THEN [j \in 1..Len(ToolUseBlocks(msgs[n].content)) |->
                ToolUseBlocks(msgs[n].content)[j].name]
        ELSE <<>>)

ToolTurnsOf(run) ==
  Cardinality({i \in 1..Len(run.messages) : run.messages[i].type = "tool_result"})

\* the state of one execution holds only what that execution produced
OwnState(r) ==
  LET run == runs[r]
      msgs == run.messages
  IN /\ run.pc # "idle" => (msgs # <<>> /\ msgs[1] = UserMessage(RequestText(r)))
     /\ \A i \in 1..Len(msgs) :
          /\ msgs[i].type = "text" => i = 1
          /\ msgs[i].type = "tool_use" => \A id \in BlockIds(msgs[i].content) : id[1] = r
          /\ msgs[i].type = "tool_result" => \A id \in ResultIds(msgs[i].content) : id[1] = r
     /\ \A id \in BlockIds(run.content) : id[1] = r
     /\ run.tools_used =
          RequestedNames(msgs, Len(msgs)) \o
          (IF run.pc = "handler" THEN <<ToolUseBlocks(run.content)[1].name>> ELSE <<>>)
     /\ run.turn = ToolTurnsOf(run) -
                   (IF run.pc = "returned" /\ "hit_tool_limit" \in DOMAIN run.result
                    THEN 1 ELSE 0)
     /\ "all_tools_used" \in DOMAIN run.result => run.result.all_tools_used = run.tools_used

MaxHistory == 11
\* the most thread messages that are not plain messages of a person
MaxSpecial == 2
\* for ctx in thread_context[-10:]
HistoryWindow == 10

ClippyBotId == "B_CLIPPY"
OtherBotId == "B_OTHER"
BotIds == {"", ClippyBotId, OtherBotId}

Chars == <<"a", "b", "c", "d", "e", "f", "g", "h", "i", "j", "k", "l", "m", "n">>
\* "Clippy: " typed by a person at the start of a message
QuotedPrefix == <<"C", "l", "i", "p", "p", "y", ":", " ">>
\* the texts the i-th message of a thread may have
TextsAt(i) == {<<Chars[i]>>, QuotedPrefix \o <<Chars[i]>>}
\* the text of the mention after Phase 1
EnhancedText == <<"?">>

SlackMessage(bot_id, text) == [bot_id |-> bot_id, text |-> text]
IsPlain(msg) == msg.bot_id = "" /\ Len(msg.text) = 1

StartsWith(s, p) == Len(s) >= Len(p) /\ SubSeq(s, 1, Len(p)) = p
\* s[n:]
Drop(s, n) == SubSeq(s, n + 1, Len(s))
\* s[-n:]
LastN(s, n) == IF Len(s) <= n THEN s ELSE SubSeq(s, Len(s) - n + 1, Len(s))

\* role = "Clippy" if msg.get("bot_id") else "User"
RoleName(msg) ==
  IF msg.bot_id # "" THEN <<"C", "l", "i", "p", "p", "y">> ELSE <<"U", "s", "e", "r">>

\* context.append(f"{role}: {msg['text']}") for msg in result["messages"][:-1]
get_thread_context(replies) ==
  [i \in 1..(Len(replies) - 1) |-> RoleName(replies[i]) \o <<":", " ">> \o replies[i].text]

HistoryMessage(role, text) == [role |-> role, type |-> "text", content |-> text]

\* Phase 2: the last 10 entries, role-tagged by their prefix, then the current message
BuildMessages(thread_context, enhanced) ==
  LET recent == LastN(thread_context, HistoryWindow)
  IN [i \in 1..Len(recent) |->
        IF StartsWith(recent[i], <<"C", "l", "i", "p", "p", "y", ":">>)
        THEN HistoryMessage("assistant", Drop(recent[i], 8))
        ELSE HistoryMessage("user", Drop(recent[i], 6))]
     \o <<UserMessage(enhanced)>>

\* a message is posted in the thread, by a person, by Clippy or by another bot
ThreadReply ==
  /\ built = NotBuilt
  /\ Len(thread) < MaxHistory
  /\ \E bot_id \in BotIds, text \in TextsAt(Len(thread) + 1) :
       LET msg == SlackMessage(bot_id, text)
           special(t) == Cardinality({i \in 1..Len(t) : ~IsPlain(t[i])})
       IN /\ special(Append(thread, msg)) <= MaxSpecial
          /\ thread' = Append(thread, msg)
  /\ UNCHANGED <<outside_builder, built>>

\* the mention arrives: steps 3 and 5 of handle_mention up to the end of Phase 2
BuildConversation ==
  /\ built = NotBuilt
  /\ LET replies == Append(thread, SlackMessage("", EnhancedText))
     IN built' = BuildMessages(get_thread_context(replies), EnhancedText)
  /\ UNCHANGED <<outside_builder, thread>>

NextBuilder == ThreadReply \/ BuildConversation

InitBuilder ==
  /\ InitLoop({}, {}, {MaxToolCalls})
  /\ executor_mode = "sequential"
  /\ InitProcess
SpecBuilder == InitBuilder /\ [][NextBuilder]_vars

(***************************************************************************)
(* Properties of the conversation builder.                                 *)
(***************************************************************************)
Min(a, b) == IF a <= b THEN a ELSE b

\* C14: for a thread history of length L the built array has min(L, 10) + 1
\* messages: the last min(L, 10) history entries in their order and with their
\* text, each with role assistant when it was spoken by the bot and role user
\* otherwise, and last the enhanced current message with role user.
C14_BuilderWindow ==
  built # NotBuilt =>
    LET L == Len(thread)
        m == Min(L, HistoryWindow)
    IN /\ Len(built) = m + 1
       /\ \A j \in 1..m :
            LET msg == thread[L - m + j] IN
              /\ built[j].content = msg.text
              /\ built[j].role = IF msg.bot_id = ClippyBotId THEN "assistant" ELSE "user"
       /\ built[m + 1] = UserMessage(EnhancedText)

(***************************************************************************)
(* Phase 1: enhance_prompt() and the channel context.                      *)
(***************************************************************************)
\* the most characters in the text of a mention
MaxMessageLen == 2

RECURSIVE StringsUpTo(_, _)
StringsUpTo(alphabet, n) ==
  IF n = 0 THEN {<<>>}
  ELSE LET shorter == StringsUpTo(alphabet, n - 1)
       IN shorter \cup {Append(s, c) : s \in shorter, c \in alphabet}

MentionTexts == StringsUpTo({"a", "-"}, MaxMessageLen)
\* what Haiku extracts: intent, services, environment, time range
Contexts == {<<>>, <<"Intent: ...">>}
ChannelInfos ==
  {NoChannel, [name |-> <<"devops">>, is_devops |-> TRUE],
   [name |-> <<"general">>, is_devops |-> FALSE]}

\* f"\n\n---\nAI-extracted context:\n"
ContextHeader == <<"\n\n---\nAI-extracted context:\n">>

\* channel_context of Phase 1
ChannelContext(info) ==
  <<"\n\n[Context: User is in #">> \o info.name \o <<" channel">>
  \o (IF info.is_devops
      THEN <<" - this IS the DevOps channel, don't tell them to post here">> ELSE <<>>)
  \o <<"]">>

\* enhance_prompt returns: f"{message}\n\n---\nAI-extracted context:\n{context}"
EnhanceReturns ==
  /\ enhance_pc = "enhance"
  /\ \E context \in Contexts :
       enhanced_message' = message \o ContextHeader \o context
  /\ enhance_pc' = "channel"
  /\ UNCHANGED <<outside_enhancer, message, channel_info>>

\* bedrock.invoke_model raises in enhance_prompt (an error of the service, or the
\* read timeout of the client): neither enhance_prompt nor Phase 1 catches it
EnhanceRaises ==
  /\ enhance_pc = "enhance"
  /\ enhance_pc' = "raised"
  /\ UNCHANGED <<outside_enhancer, message, channel_info, enhanced_message>>

\* errors are caught and reported to #clippy-ai-dev: the exception of Phase 1 ends
\* the request with an alert
AlertEnhanceError ==
  /\ enhance_pc = "raised"
  /\ alerts' = Append(alerts, "enhance")
  /\ enhance_pc' = "reported"
  /\ UNCHANGED <<config, pc, turn, messages, tools_used, response_vars, tool_result_contents,
                 executor_vars, outcome_vars, formatted, redaction_failed, reply,
                 planner_calls, dispatched, invoked, tool_turns, next_id>>
  /\ UNCHANGED <<cancel_vars, thread_vars, builder_vars, metrics_vars, sidecar_vars, prompt_vars,
                 chat_vars,
                 message, channel_info, enhanced_message>>

\* if channel_info and channel_info.get("name"): enhanced_message += channel_context
AddChannelContext ==
  /\ enhance_pc = "channel"
  /\ enhanced_message' =
       IF channel_info.name # <<>>
       THEN enhanced_message \o ChannelContext(channel_info) ELSE enhanced_message
  /\ enhance_pc' = "planning"
  /\ UNCHANGED <<outside_enhancer, message, channel_info>>

NextEnhancer == EnhanceReturns \/ EnhanceRaises \/ AlertEnhanceError \/ AddChannelContext

InitEnhancer ==
  /\ InitLoop({}, {}, {MaxToolCalls})
  /\ executor_mode = "sequential"
  /\ CancelIdle
  /\ ThreadsIdle({"none"})
  /\ BuilderIdle
  /\ MetricsIdle
  /\ SidecarIdle
  /\ PromptsIdle
  /\ ChatIdle
  /\ message \in MentionTexts
  /\ channel_info \in ChannelInfos
  /\ enhanced_message = <<>>
  /\ enhance_pc = "enhance"
SpecEnhancer == InitEnhancer /\ [][NextEnhancer]_vars

\* C15: whatever the outcome of the auxiliary model call (success, error, timeout),
\* enhance_prompt returns, with the input followed by an extracted-context block or
\* with the input unchanged, so the input is a prefix of the enhanced message, and
\* the loop goes on to planning; no exception ends the request in Phase 1.
C15_EnhancerFailsOpen ==
  /\ enhance_pc # "raised"
  /\ enhance_pc \in {"channel", "planning"} => StartsWith(enhanced_message, message)
  /\ enhance_pc = "channel" =>
       \/ enhanced_message = message
       \/ StartsWith(Drop(enhanced_message, Len(message)), ContextHeader)

(***************************************************************************)
(* Tool calls whose arguments are incomplete.  execute_tool reads each     *)
(* argument with tool_input.get(name, default) and passes it on.           *)
(***************************************************************************)
\* search_logs with its query, and search_logs with no argument at all
ValidateCalls == {<<"search_logs", <<"errors">>>>, <<"search_logs", <<>>>>}
InitValidate == InitWith({}, ValidateCalls, {MaxToolCalls})
SpecValidate == InitValidate /\ [][Next]_vars

\* the schema of every tool of the catalog asks for its first argument
\* (query, repo, command)
SatisfiesSchema(name, input) == input # <<>>

InvalidCallsDenied(c, res) ==
  \A j \in 1..Len(res) :
    LET call == CallWithId(c, res[j].tool_use_id) IN
      ~SatisfiesSchema(call.name, call.input) => res[j].content.status = "validation_error"

\* C16: a tool call whose arguments do not satisfy the schema of its tool never
\* reaches a handler (so nothing can be raised by one on its behalf); its result,
\* collected for the turn and handed to the planner in the message list, is a
\* validation error.
C16_InvalidCallRejected ==
  /\ \A p \in invoked : SatisfiesSchema(p[1], p[2])
  /\ pc \in {"execute_tools", "feed_results"} =>
       InvalidCallsDenied(content, tool_result_contents)
  /\ \A i \in 2..Len(messages) :
       messages[i].type = "tool_result" =>
         InvalidCallsDenied(messages[i - 1].content, messages[i].content)

(***************************************************************************)
(* Properties of termination.                                              *)
(***************************************************************************)
\* the execution is over and invoke_claude_with_tools has returned a result
Returned == pc = "finished" /\ result # NoResult

\* C17: the number of planner calls and of tool dispatches of one execution is
\* bounded by a function of max_tool_calls (every cycle between planning and
\* executing makes a planner call, so no execution cycles forever), and the only
\* states in which an execution stops are those in which it has returned a result.
C17_TerminatesAndReturns ==
  /\ planner_calls <= max_tool_calls + 1
  /\ dispatched <= (max_tool_calls + 1) * MaxBlocks
  /\ Returned \/ ENABLED Next

\* C18: on every path on which the loop returns, the limit path included, the
\* result lists the tools used, and the list is the names of the tool calls
\* dispatched during the run, one entry for each call, in the order of dispatch.
C18_ToolsUsedOnEveryPath ==
  pc \in ReturnedPcs /\ result # NoResult =>
    /\ "all_tools_used" \in DOMAIN result
    /\ result.all_tools_used = RequestedNames(messages, Len(messages))

(***************************************************************************)
(* metrics.py: ClippyMetrics.  handle_mention calls                        *)
(* _metrics.record_request(...) when a request has completed; the threads  *)
(* of concurrent mentions call it on the one object of the process.  The   *)
(* body of record_request is not listed: it adds the request to the        *)
(* counters as one indivisible update and logs a line every 10 requests.   *)
(***************************************************************************)
\* the most requests completed in one run of the process
MaxCompleted == 22
\* Logged every 10 requests
RollupEvery == 10

\* record_request entered without waiting for the thread that is inside it
MayRecordUnlocked(lock) == TRUE

\* a thread enters record_request when no other thread is inside it
MayRecord(lock) == lock = 0

Recording == {r \in Requests : recorder[r].pc # "idle"}

\* a request completes on thread r: handle_mention is about to call record_request
RequestCompletes(r) ==
  /\ recorder[r].pc = "idle"
  /\ requests_done + Cardinality(Recording) < MaxCompleted
  /\ recorder' = [recorder EXCEPT ![r].pc = "calling"]
  /\ UNCHANGED <<outside_metrics, total_requests, rollup_lines, metrics_lock, requests_done>>

\* record_request reads the counter
RecordRequestBegin(r) ==
  /\ recorder[r].pc = "calling"
  /\ MayRecord(metrics_lock)
  /\ metrics_lock' = r
  /\ recorder' = [recorder EXCEPT ![r] = [pc |-> "recording", seen |-> total_requests]]
  /\ UNCHANGED <<outside_metrics, total_requests, rollup_lines, requests_done>>

\* record_request stores the counter, logs the line every 10 requests, and returns
RecordRequestEnd(r) ==
  /\ recorder[r].pc = "recording"
  /\ total_requests' = recorder[r].seen + 1
  /\ rollup_lines' = rollup_lines + (IF (recorder[r].seen + 1) % RollupEvery = 0 THEN 1 ELSE 0)
  /\ metrics_lock' = IF metrics_lock = r THEN 0 ELSE metrics_lock
  /\ recorder' = [recorder EXCEPT ![r] = [pc |-> "idle", seen |-> 0]]
  /\ requests_done' = requests_done + 1
  /\ UNCHANGED outside_metrics

NextMetrics ==
  \/ \E r \in Requests : RequestCompletes(r)
  \/ \E r \in Requests : RecordRequestBegin(r)
  \/ \E r \in Requests : RecordRequestEnd(r)

InitMetrics ==
  /\ InitLoop({}, {}, {MaxToolCalls})
  /\ executor_mode = "sequential"
  /\ InitProcess
SpecMetrics == InitMetrics /\ [][NextMetrics]_vars

StartPlanning ==
  /\ enhance_pc = "planning"
  /\ pc = "enhancing"
  /\ pc' = "call_claude"
  /\ UNCHANGED <<config, process_vars, turn, messages, tools_used, response_vars, tool_result_contents,
                 executor_vars, outcome_vars, channel_vars,
                 planner_calls, dispatched, invoked, tool_turns, next_id>>

NextPipeline == NextEnhancer \/ StartPlanning \/ Next

InitPipeline ==
  /\ InitLoopAt(LoopTexts, CancelCalls, {MaxToolCalls}, "enhancing")
  /\ CancelIdle
  /\ ThreadsIdle({"none"})
  /\ BuilderIdle
  /\ MetricsIdle
  /\ SidecarIdle
  /\ PromptsIdle
  /\ ChatIdle
  /\ message \in {m \in MentionTexts : Len(m) = 1}
  /\ channel_info = NoChannel
  /\ enhanced_message = <<>>
  /\ enhance_pc = "enhance"
SpecPipeline == InitPipeline /\ [][NextPipeline]_vars /\ WF_vars(NextPipeline)

\* the request has ended in a failure that was not recovered
UnrecoveredFailure == exc # "none" \/ redaction_failed \/ enhance_pc = "raised"

SinkOutcomes == {"ok", "failed", "blocked"}

\* invoke_claude_with_tools has returned or raised, and handle_mention has ended
RequestEndedPcs == {"finished"}

\* _metrics.record_request(...) called from inside the loop, after Step 4c, its
\* exception leaving the loop
RecordRequestInLoop ==
  /\ pc = "feed_results"
  /\ sinks.metrics = "idle"
  /\ \E outcome \in SinkOutcomes :
       /\ sinks' = [sinks EXCEPT !.metrics = outcome]
       /\ exc' = IF outcome = "failed" THEN "metrics" ELSE exc
       /\ pc' = CASE outcome = "failed" -> "raised"
                  [] outcome = "blocked" -> "blocked"
                  [] OTHER -> pc
       /\ total_requests' = total_requests + (IF outcome = "ok" THEN 1 ELSE 0)
  /\ UNCHANGED <<config, turn, messages, tools_used, response_vars, tool_result_contents,
                 executor_vars, result, channel_vars, planner_calls, dispatched, invoked,
                 tool_turns, next_id>>
  /\ UNCHANGED <<cancel_vars, thread_vars, builder_vars, enhancer_vars, prompt_vars,
                 chat_vars, rollup_lines, metrics_lock, recorder, requests_done>>

\* _metrics.record_request(duration_ms=duration, tools_used=..., hit_limit=...)
RecordRequest ==
  /\ pc \in RequestEndedPcs
  /\ sinks.metrics = "idle"
  /\ \E outcome \in SinkOutcomes :
       /\ sinks' = [sinks EXCEPT !.metrics = outcome]
       /\ exc' = exc
       /\ pc' = IF outcome = "blocked" THEN "blocked" ELSE pc
       /\ total_requests' = total_requests + (IF outcome = "ok" THEN 1 ELSE 0)
  /\ UNCHANGED <<config, turn, messages, tools_used, response_vars, tool_result_contents,
                 executor_vars, result, channel_vars, planner_calls, dispatched, invoked,
                 tool_turns, next_id>>
  /\ UNCHANGED <<cancel_vars, thread_vars, builder_vars, enhancer_vars, prompt_vars,
                 chat_vars, rollup_lines, metrics_lock, recorder, requests_done>>

\* alert_error when _slack_client.chat_postMessage raises or does not come back
AlertErrorFails ==
  /\ pc = "raised"
  /\ \E outcome \in SinkOutcomes \ {"ok"} :
       /\ sinks' = [sinks EXCEPT !.alert = outcome]
       /\ pc' = IF outcome = "blocked" THEN "blocked" ELSE "finished"
  /\ UNCHANGED <<config, turn, messages, tools_used, response_vars, tool_result_contents,
                 executor_vars, outcome_vars, channel_vars, planner_calls, dispatched,
                 invoked, tool_turns, next_id>>
  /\ UNCHANGED <<cancel_vars, thread_vars, builder_vars, enhancer_vars, metrics_vars,
                 prompt_vars, chat_vars>>

NextSidecar == Next \/ RecordRequest \/ AlertErrorFails

InitSidecar == InitWith(LoopTexts, CancelCalls, 0..MaxToolCalls)
SpecSidecar == InitSidecar /\ [][NextSidecar]_vars

\* what the loop did and returned: its planner calls, its dispatches, its messages
LoopTrace ==
  <<planner_calls, dispatched, invoked, tool_turns, turn, messages, tools_used,
    stop_reason, content, tool_result_contents, result, exc>>
\* what the sinks have been asked to do, and how it ended
SidecarState == <<sinks, alerts, total_requests>>
SidecarUntouched == sinks = NoSinkCalled /\ alerts = <<>> /\ total_requests = 0
LoopEnded == pc \in {"raised", "format", "post", "report", "finished", "blocked"}

\* C21: the planner calls, the tool dispatches and the result of an execution of
\* the loop do not depend on the sinks: every step of the loop is taken before any
\* sink has been called, and a call of a sink, whether it succeeds, fails or
\* blocks, comes after the loop has ended and changes nothing of what the loop did
\* or returned.
C21_SidecarNeverChangesLoop ==
  [][/\ LoopTrace' # LoopTrace => SidecarUntouched
     /\ SidecarState' # SidecarState => (LoopEnded /\ LoopTrace' = LoopTrace)]_vars

\* C21 witness: the loop returned after a turn of tools, and the call of the metrics
\* sink for the request has failed.
C21_Witness ==
  /\ sinks.metrics = "failed"
  /\ tool_turns > 0
  /\ result # NoResult

(***************************************************************************)
(* Properties of the executors.                                            *)
(***************************************************************************)
\* every result of res holds the payload that the handler produced for the call of
\* c that has the id of the result
PayloadsOfOwnCalls(c, res) ==
  \A j \in 1..Len(res) :
    LET call == CallWithId(c, res[j].tool_use_id) IN
      res[j].content.payload = <<call.name, call.input>>

\* C22: each tool result, while it is collected for the turn and in the message
\* list, carries the id of the tool call whose handler produced its payload, in
\* whatever order the calls of the turn returned.
C22_ResultCarriesOwnCallId ==
  /\ pc \in {"execute_tools", "feed_results"} =>
       PayloadsOfOwnCalls(content, tool_result_contents)
  /\ \A i \in 2..Len(messages) :
       messages[i].type = "tool_result" =>
         PayloadsOfOwnCalls(messages[i - 1].content, messages[i].content)

\* C22 witness: two different calls of one turn ran on the thread pool, the second
\* returned first, and their results have been appended to the message list.
C22_Witness ==
  /\ pc = "safety_limit"
  /\ executor_mode = "parallel"
  /\ completed = <<2, 1>>
  /\ LET res == messages[Len(messages)].content IN
       /\ Len(res) = 2
       /\ res[1].content.payload # res[2].content.payload

(***************************************************************************)
(* Turns with more tool calls than the thread pool has workers.            *)
(***************************************************************************)
\* the most tool calls in one planner response
MaxBatch == 6

\* Step 4a with a planner that asks for up to MaxBatch calls at once, or completes
CallClaudeBatch ==
  /\ pc = "call_claude"
  /\ \/ \E k \in 1..MaxBatch, c \in call_pool :
          /\ stop_reason' = "tool_use"
          /\ content' = [i \in 1..k |-> ToolUseBlock(next_id + i - 1, c)]
          /\ next_id' = next_id + k
     \/ \E t \in text_pool :
          /\ stop_reason' = "end_turn"
          /\ content' = <<TextBlock(t)>>
          /\ next_id' = next_id
  /\ planner_calls' = planner_calls + 1
  /\ completed' = <<>>
  /\ pc' = "check_done"
  /\ UNCHANGED <<config, process_vars, turn, messages, tools_used, tool_result_contents, queued, running,
                 finished, outcome_vars, channel_vars, dispatched, invoked, tool_turns>>

NextPool ==
  \/ CallClaudeBatch
  \/ CheckDone
  \/ StartTools
  \/ StartWorker
  \/ FinishWorker
  \/ WorkerRaises
  \/ Gather
  \/ FeedResults
  \/ NextTurn
  \/ SafetyLimit
  \/ Format
  \/ PostReply
  \/ AlertError
  \/ AlertRedactionFailure

InitPool ==
  /\ InitWith(LoopTexts, CancelCalls, {1})
  /\ executor_mode = "parallel"
SpecPool == InitPool /\ [][NextPool]_vars

FinishedPositions == {p[1] : p \in finished}
QueuedPositions == {queued[j] : j \in 1..Len(queued)}

\* C23: at most max_workers handlers of a turn execute at the same time, however
\* many calls the planner requested; a call beyond the limit waits in the queue,
\* is never dropped (every call of the turn is queued, executing or has returned),
\* can always go on once a worker is free, and when the results of the turn are
\* fed back every call of the turn has been executed.
C23_WorkerLimit ==
  /\ Cardinality(running) <= max_workers
  /\ pc = "execute_tools" =>
       LET n == Len(ToolUseBlocks(content)) IN
         /\ QueuedPositions \cup running \cup FinishedPositions = 1..n
         /\ QueuedPositions \cap running = {}
         /\ QueuedPositions \cap FinishedPositions = {}
         /\ running \cap FinishedPositions = {}
         /\ dispatched >= Cardinality(running) + Cardinality(FinishedPositions)
         /\ ENABLED (StartWorker \/ FinishWorker \/ Gather)
  /\ pc = "feed_results" =>
       /\ queued = <<>>
       /\ running = {}
       /\ FinishedPositions = 1..Len(ToolUseBlocks(content))
       /\ Len(tool_result_contents) = Len(ToolUseBlocks(content))

\* C23 witness: the planner asked for more calls than there are workers, max_workers
\* of them are executing and the others wait.
C23_Witness ==
  /\ pc = "execute_tools"
  /\ Len(ToolUseBlocks(content)) > max_workers
  /\ Cardinality(running) = max_workers
  /\ queued # <<>>

(***************************************************************************)
(* Properties of the turn counter and of the message list.                 *)
(***************************************************************************)
\* the number of tool-results messages in the message list
ToolResultMessages(msgs) ==
  Cardinality({i \in 1..Len(msgs) : msgs[i].type = "tool_result"})

InsideLoop == pc \in {"call_claude", "check_done", "execute_tools", "feed_results"}

\* C24: the turn counter stays between 0 and max_tool_calls and never decreases; it
\* grows by exactly one when, and only when, the loop goes back to planning after
\* the results of a turn have been appended, so that during an iteration it equals
\* the number of turns fed back so far; the planning step that completes leaves it
\* unchanged.
C24_TurnCounter ==
  /\ [](/\ 0 <= turn
        /\ turn <= max_tool_calls
        /\ InsideLoop =>
             turn = ToolResultMessages(messages))
  /\ [][/\ turn' \in {turn, turn + 1}
        /\ turn' = turn + 1 <=> (pc = "safety_limit" /\ pc' = "call_claude")
        /\ (pc = "check_done" /\ pc' = "format") => turn' = turn]_vars

\* C24 witness: after max_tool_calls turns of tools the planner completed, and the
\* loop returned with the counter at max_tool_calls.
C24_Witness ==
  /\ pc = "format"
  /\ stop_reason = "end_turn"
  /\ max_tool_calls > 0
  /\ turn = max_tool_calls

\* the number of turns whose results have been appended to the message list
CompletedTurns ==
  tool_turns - (IF pc \in {"execute_tools", "feed_results"} \/ exc = "tool" THEN 1 ELSE 0)

\* C25: the message list only grows, and only by the two messages of a completed
\* turn: the assistant message with the content of the planner response, then one
\* user message with the results of all the calls of that response; the messages
\* already in the list stay as they are, and after k completed turns the list has
\* its initial message and 2k more.
C25_TwoMessagesPerTurn ==
  /\ [](Len(messages) = 1 + 2 * CompletedTurns)
  /\ [][/\ Len(messages') >= Len(messages)
        /\ SubSeq(messages', 1, Len(messages)) = messages
        /\ messages' # messages =>
             /\ pc = "feed_results"
             /\ messages' = messages \o <<AssistantMessage(content),
                                          ToolResultsMessage(tool_result_contents)>>
             /\ messages'[Len(messages')].role = "user"
             /\ messages'[Len(messages') - 1].role = "assistant"
             /\ ResultIds(tool_result_contents) = ToolUseIds(content)]_vars

\* C25 witness: two turns have been completed, the second with two calls, and the
\* list holds the current message and the four messages of the two turns.
C25_Witness ==
  /\ pc = "format"
  /\ tool_turns = 2
  /\ Len(messages) = 5
  /\ messages[2].type = "tool_use"
  /\ messages[3].type = "tool_result"
  /\ messages[4].type = "tool_use"
  /\ Len(messages[5].content) = 2

(***************************************************************************)
(* Dynamic configuration.  system_prompt.txt lives in S3 and is cached by  *)
(* the process for 5 minutes; CLIPPY_TOOLS is a constant of the module     *)
(* claude_tools.  Phase 3 builds body once, before the loop; the loop      *)
(* sends json.dumps(body) on every planner call and assigns only           *)
(* body["messages"].                                                       *)
(***************************************************************************)
\* the most versions of system_prompt.txt uploaded while the process runs
MaxVersions == 3

CLIPPY_TOOLS == "claude_tools.CLIPPY_TOOLS"

\* get_system_prompt(): the cached prompt while the cache entry is fresh, else S3
get_system_prompt(p) == IF p.live THEN p.cached ELSE p.store
\* the cache after get_system_prompt() has returned
AfterLoad(p) == [p EXCEPT !.cached = get_system_prompt(p), !.live = TRUE]

\* a planner call that builds system and tools anew
BodyOfCallRebuilt(p) == [system |-> get_system_prompt(p), tools |-> CLIPPY_TOOLS]

\* client.invoke_model(modelId=..., body=json.dumps(body)): the system and tools sent
BodyOfCall(p) == p.body

\* aws s3 cp ./system_prompt.txt s3://.../clippy-config/
UploadPrompt ==
  /\ prompts.store < MaxVersions
  /\ prompts' = [prompts EXCEPT !.store = @ + 1]
  /\ UNCHANGED outside_prompts

\* Cache TTL: 5 minutes
PromptCacheExpires ==
  /\ prompts.live
  /\ prompts' = [prompts EXCEPT !.live = FALSE]
  /\ UNCHANGED outside_prompts

\* Phase 3 of another mention: its get_system_prompt() reloads the expired entry
OtherMentionLoads ==
  /\ ~prompts.live
  /\ prompts' = AfterLoad(prompts)
  /\ UNCHANGED outside_prompts

\* Phase 3: body = {"system": get_system_prompt(), "messages": ..., "tools": CLIPPY_TOOLS}
PrepareRequest ==
  /\ prompts.pc = "idle"
  /\ prompts' = [AfterLoad(prompts) EXCEPT
                   !.body = [system |-> get_system_prompt(prompts), tools |-> CLIPPY_TOOLS],
                   !.pc = "loop"]
  /\ UNCHANGED outside_prompts

\* Step 4a of an iteration of for turn in range(max_tool_calls + 1)
InvokeModel ==
  /\ prompts.pc = "loop"
  /\ Len(prompts.sent) <= max_tool_calls
  /\ prompts' = [prompts EXCEPT !.sent = Append(@, BodyOfCall(prompts))]
  /\ UNCHANGED outside_prompts

\* Step 4b or Phase 5: invoke_claude_with_tools returns
LoopReturns ==
  /\ prompts.pc = "loop"
  /\ prompts.sent # <<>>
  /\ prompts' = [prompts EXCEPT !.pc = "returned"]
  /\ UNCHANGED outside_prompts

NextPrompts ==
  \/ UploadPrompt
  \/ PromptCacheExpires
  \/ OtherMentionLoads
  \/ PrepareRequest
  \/ InvokeModel
  \/ LoopReturns

InitPrompts ==
  /\ InitLoop({}, {}, 0..MaxToolCalls)
  /\ executor_mode = "sequential"
  /\ InitProcess
SpecPrompts == InitPrompts /\ [][NextPrompts]_vars

\* C26: every planner call of an execution sends the system prompt and the tool
\* catalog that Phase 3 put into body, so all the calls of the execution send the
\* same ones, also when the cache entry expires, the prompt in S3 is replaced or
\* another mention reloads the cache while the execution is in progress.
C26_SameConfigWithinExecution ==
  \A i \in 1..Len(prompts.sent) :
    /\ prompts.sent[i] = prompts.body
    /\ prompts.sent[i] = prompts.sent[1]
    /\ prompts.sent[i].tools = CLIPPY_TOOLS
    /\ prompts.sent[i].system \in 1..MaxVersions

\* C26 witness: between two planner calls of the execution the prompt in S3 was
\* replaced and the cache reloaded, and both calls sent the prompt of Phase 3.
C26_Witness ==
  /\ Len(prompts.sent) >= 2
  /\ prompts.live
  /\ prompts.cached > prompts.body.system
  /\ prompts.sent[Len(prompts.sent)].system = prompts.body.system

(***************************************************************************)
(* Properties of what the planner is given.                                *)
(***************************************************************************)
\* C27: whenever the loop is about to call the planner, the message list ends with
\* a message of role user: the current message on the first call, and the
\* tool-results message of the turn just completed on every later call.
C27_PlannerInputEndsWithUser ==
  pc = "call_claude" =>
    LET last == messages[Len(messages)] IN
      /\ messages # <<>>
      /\ last.role = "user"
      /\ turn = 0 => last = UserMessage(CurrentMessage)
      /\ turn > 0 =>
           /\ last.type = "tool_result"
           /\ last.content = tool_result_contents
           /\ messages[Len(messages) - 1].role = "assistant"

\* C27 witness: the planner is about to be called a second time and the list ends
\* with the user message that holds the results of the turn.
C27_Witness ==
  /\ pc = "call_claude"
  /\ turn = 1
  /\ planner_calls = 1
  /\ messages[Len(messages)].role = "user"
  /\ messages[Len(messages)].type = "tool_result"

(***************************************************************************)
(* The chat of the dashboard (web-dashboard/src/components/ChatBot.jsx).   *)
(* A step is one event handler of the component, with the effects that     *)
(* React runs after it.  ws.onmessage is assigned once, in                 *)
(* connectWebSocket, and calls the handleWebSocketMessage of the render in *)
(* which the effect ran: what that function reads from the state           *)
(* (streamingContent, in case 'done') is the value of that render, while   *)
(* its setters act on the current state.                                   *)
(***************************************************************************)
Tokens == {"a", "b"}
Inputs == {" ", "q"}
Statuses == {"thinking", "responding"}
ToolEvents == {"tool_start", "tool_executing", "tool_end"}

\* input.trim()
Trim(s) == IF s = " " THEN "" ELSE s

ChatMessage(role, text) == [role |-> role, content |-> text]
UserSends == Cardinality({i \in 1..Len(chat_messages) : chat_messages[i].role = "user"})

\* the cleanup of the effect: if (wsRef.current) { wsRef.current.close(); ... = null }
\* a WebSocket after close() or a failure: it delivers no more messages
Closing == [readyState |-> "closing", closure |-> <<>>]
AfterCleanup ==
  IF wsRef # 0 /\ sockets[wsRef].readyState \in {"connecting", "open"}
  THEN [sockets EXCEPT ![wsRef] = Closing]
  ELSE sockets

\* const ws = new WebSocket(wsUrl): a new object
FreeIds == {w \in SocketIds : sockets[w].readyState = "none"}
NewSocketId == CHOOSE w \in FreeIds : \A v \in FreeIds : w <= v

\* onClick={() => setIsOpen(!isOpen)}, then useEffect(..., [isOpen]): the cleanup of
\* the last effect, and connectWebSocket() if the chat is now open
ToggleOpen ==
  /\ isOpen \/ FreeIds # {}
  /\ isOpen' = ~isOpen
  /\ IF ~isOpen
     THEN /\ sockets' = [AfterCleanup EXCEPT ![NewSocketId] =
                           [readyState |-> "connecting", closure |-> streamingContent]]
          /\ wsRef' = NewSocketId
     ELSE /\ sockets' = AfterCleanup
          /\ wsRef' = 0
  /\ pending' = pending \ {wsRef}
  /\ last_event' = ""
  /\ UNCHANGED <<chat_messages, chat_input, isConnected, isLoading, currentTool,
                 streamingContent, frames, awaiting_reply>>
  /\ UNCHANGED outside_chat

\* ws.onopen
WsOpen(w) ==
  /\ w \in DOMAIN sockets
  /\ sockets[w].readyState = "connecting"
  /\ sockets' = [sockets EXCEPT ![w].readyState = "open"]
  /\ isConnected' = TRUE
  /\ last_event' = ""
  /\ UNCHANGED <<isOpen, chat_messages, chat_input, isLoading, currentTool,
                 streamingContent, wsRef, frames, pending, awaiting_reply>>
  /\ UNCHANGED outside_chat

\* ws.onclose: the connection was closed by close(), by the server or by the network
WsClose(w) ==
  /\ w \in DOMAIN sockets
  /\ sockets[w].readyState \in {"connecting", "open", "closing"}
  /\ sockets' = [sockets EXCEPT ![w] = NoSocket]
  /\ isConnected' = FALSE
  /\ wsRef' = 0
  /\ pending' = pending \ {w}
  /\ last_event' = ""
  /\ UNCHANGED <<isOpen, chat_messages, chat_input, isLoading, currentTool,
                 streamingContent, frames, awaiting_reply>>
  /\ UNCHANGED outside_chat

\* ws.onerror; the browser then closes the connection
WsError(w) ==
  /\ w \in DOMAIN sockets
  /\ sockets[w].readyState \in {"connecting", "open"}
  /\ sockets' = [sockets EXCEPT ![w] = Closing]
  /\ isConnected' = FALSE
  /\ pending' = pending \ {w}
  /\ last_event' = ""
  /\ UNCHANGED <<isOpen, chat_messages, chat_input, isLoading, currentTool,
                 streamingContent, wsRef, frames, awaiting_reply>>
  /\ UNCHANGED outside_chat

\* <Input onChange={(e) => setInput(e.target.value)} disabled={!isConnected || isLoading}>
TypeInput ==
  /\ isOpen
  /\ isConnected
  /\ ~isLoading
  /\ \E t \in Inputs \ {chat_input} : chat_input' = t
  /\ last_event' = ""
  /\ UNCHANGED <<isOpen, chat_messages, isConnected, isLoading, currentTool,
                 streamingContent, wsRef, sockets, frames, pending, awaiting_reply>>
  /\ UNCHANGED outside_chat

\* sendMessage, from the Send button or the Enter key
SendMessage ==
  /\ isOpen
  /\ isConnected
  /\ UserSends < MaxSends
  /\ ~(Trim(chat_input) = "" \/ wsRef = 0 \/ isLoading)
  /\ chat_messages' = Append(chat_messages, ChatMessage("user", <<Trim(chat_input)>>))
  /\ chat_input' = ""
  /\ isLoading' = TRUE
  /\ streamingContent' = <<>>
  /\ IF sockets[wsRef].readyState = "open"
     THEN /\ frames' = Append(frames, [socket |-> wsRef, content |-> Trim(chat_input)])
          /\ pending' = pending \cup {wsRef}
          /\ awaiting_reply' = TRUE
     ELSE UNCHANGED <<frames, pending, awaiting_reply>>
  /\ last_event' = ""
  /\ UNCHANGED <<isOpen, isConnected, currentTool, wsRef, sockets>>
  /\ UNCHANGED outside_chat

\* the server is answering a frame that came over w, and w delivers its events
Answering(w) ==
  /\ w \in DOMAIN sockets
  /\ sockets[w].readyState = "open"
  /\ w \in pending

\* case 'status': setIsLoading(data.status === 'thinking')
ReceiveStatus(w) ==
  /\ Answering(w)
  /\ \E status \in Statuses : isLoading' = (status = "thinking")
  /\ last_event' = ""
  /\ UNCHANGED <<isOpen, chat_messages, chat_input, isConnected, currentTool,
                 streamingContent, wsRef, sockets, frames, pending, awaiting_reply>>
  /\ UNCHANGED outside_chat

\* case 'token': setStreamingContent(prev => prev + data.content)
ReceiveToken(w) ==
  /\ Answering(w)
  /\ Len(streamingContent) < MaxTokens
  /\ \E t \in Tokens : streamingContent' = Append(streamingContent, t)
  /\ last_event' = ""
  /\ UNCHANGED <<isOpen, chat_messages, chat_input, isConnected, isLoading, currentTool,
                 wsRef, sockets, frames, pending, awaiting_reply>>
  /\ UNCHANGED outside_chat

\* case 'tool_start', 'tool_executing', 'tool_end': setCurrentTool(...)
ReceiveTool(w) ==
  /\ Answering(w)
  /\ \E e \in ToolEvents :
       /\ currentTool' = CASE e = "tool_start" -> "search_logs"
                           [] e = "tool_executing" -> "Running search_logs..."
                           [] OTHER -> ""
  /\ last_event' = ""
  /\ UNCHANGED <<isOpen, chat_messages, chat_input, isConnected, isLoading,
                 streamingContent, wsRef, sockets, frames, pending, awaiting_reply>>
  /\ UNCHANGED outside_chat

\* case 'done': if (streamingContent) { setMessages([...prev, {assistant, streamingContent}]);
\* setStreamingContent('') }; setIsLoading(false); setCurrentTool(null)
ReceiveDone(w) ==
  /\ Answering(w)
  /\ IF sockets[w].closure # <<>>
     THEN /\ chat_messages' = Append(chat_messages, ChatMessage("assistant", sockets[w].closure))
          /\ streamingContent' = <<>>
     ELSE UNCHANGED <<chat_messages, streamingContent>>
  /\ isLoading' = FALSE
  /\ currentTool' = ""
  /\ pending' = pending \ {w}
  /\ awaiting_reply' = FALSE
  /\ last_event' = "done"
  /\ UNCHANGED <<isOpen, chat_input, isConnected, wsRef, sockets, frames>>
  /\ UNCHANGED outside_chat

\* case 'error': the message is appended; isLoading, currentTool, streamingContent reset
ReceiveError(w) ==
  /\ Answering(w)
  /\ chat_messages' = Append(chat_messages, ChatMessage("assistant", <<"Error: ">>))
  /\ isLoading' = FALSE
  /\ currentTool' = ""
  /\ streamingContent' = <<>>
  /\ pending' = pending \ {w}
  /\ awaiting_reply' = FALSE
  /\ last_event' = ""
  /\ UNCHANGED <<isOpen, chat_input, isConnected, wsRef, sockets, frames>>
  /\ UNCHANGED outside_chat

NextChat ==
  \/ ToggleOpen
  \/ TypeInput
  \/ SendMessage
  \/ \E w \in SocketIds : WsOpen(w)
  \/ \E w \in SocketIds : WsClose(w)
  \/ \E w \in SocketIds : WsError(w)
  \/ \E w \in SocketIds : ReceiveStatus(w)
  \/ \E w \in SocketIds : ReceiveToken(w)
  \/ \E w \in SocketIds : ReceiveTool(w)
  \/ \E w \in SocketIds : ReceiveDone(w)
  \/ \E w \in SocketIds : ReceiveError(w)

InitChat ==
  /\ InitLoop({}, {}, {MaxToolCalls})
  /\ executor_mode = "sequential"
  /\ InitProcess
SpecChat == InitChat /\ [][NextChat]_vars

\* C28: a 'done' event that arrives when tokens have been received for the current
\* request appends one assistant message whose content is those tokens joined in the
\* order of their arrival, and empties the streaming buffer.
C28_DoneAppendsStreamedMessage ==
  [][(last_event' = "done" /\ streamingContent # <<>>) =>
       /\ chat_messages' = Append(chat_messages, ChatMessage("assistant", streamingContent))
       /\ streamingContent' = <<>>]_vars

\* C29: from the step in which sendMessage sends a 'message' frame until a 'done'
\* or 'error' event has been handled, no other 'message' frame is sent, whatever
\* the user does and whatever events arrive.
C29_OneFrameUntilReply ==
  [][awaiting_reply => frames' = frames]_vars

\* the connection on which the reply is awaited keeps delivering: the server goes
\* on to 'done' or 'error' while the connection is open, and every handler that
\* has an event to handle runs
FairChat ==
  /\ WF_vars(NextChat)
  /\ WF_vars(\E w \in SocketIds : ReceiveDone(w) \/ ReceiveError(w))
SpecChatFair == InitChat /\ [][NextChat]_vars /\ FairChat

\* C30: whenever isLoading is true it becomes false again later, also when the
\* connection closes or fails before 'done' or 'error' has arrived.
C30_LoadingEnds == isLoading ~> ~isLoading

====
